---- MODULE Spec2Model ----
(***************************************************************************)
(* A state-machine model of FDTD::App (src/src/App.cpp): device            *)
(* enumeration and reset, the mesh-partitioning decision of                *)
(* App::initializeMesh, the run entry points (runSimulation, runCapture,   *)
(* runVisualization), the per-step path App::executeStep and the small     *)
(* controls (invertTime, resetPressureMesh, updateVisualization, close).   *)
(*                                                                         *)
(* One control thread executes the methods (its position is pc); the       *)
(* interrupt flag read by the interrupt predicate is raised by the         *)
(* environment at any moment.  External collaborators (CUDA runtime,       *)
(* voxelizer, kernels, window) are modelled by the calls made to them,     *)
(* recorded in the order made in the log `calls` of the operation in       *)
(* progress, and by the values they return, drawn from small sets.         *)
(***************************************************************************)
EXTENDS Integers, Sequences, FiniteSets, TLC

(***************************************************************************)
(* Bounds of the model.                                                    *)
(***************************************************************************)
MaxOps == 2             \* public calls made by the client in one behaviour
MaxSteps == 3           \* largest configured number of steps
MaxReplayStart == 10    \* largest start step of the replay scenario
MaxReplayLen == 5       \* largest number of replayed steps

(***************************************************************************)
(* Constants of the program.                                               *)
(***************************************************************************)
BytesPerNodeFloat == 8
BytesPerNodeDouble == 18
element_limit == 90000000
NumReceivers == 2

(***************************************************************************)
(* Values the environment supplies.                                        *)
(***************************************************************************)
\* free memory (MB) per device, as one enumeration reports it
DeviceLayouts == { <<>>, <<100>>, <<1000>>, <<100, 100>>, <<1000, 1000>> }
\* estimated node counts (bounding box volume / dx^3)
NodeSamples == { 10000, 20000000, 240000000, 600000000 }
\* element counts the voxelized mesh reports
ElementSamples == { 20000000, 50000000, 100000000 }
\* configured values of force_partition_to_ (-1: not forced)
ForceSamples == { -1, 0, 1, 2 }
\* partition counts a direct caller of initializeMesh requests
HintSamples == { 1, 2 }

(***************************************************************************)
(* 32-bit unsigned arithmetic of lines 153-154:                            *)
(*   estimated_nodes * k / 1000000                                         *)
(* The product is taken modulo 2^32 and then divided.  It is computed on   *)
(* 16-bit halves: with the product H*2^16 + L,                             *)
(*   (H*2^16 + L) div 10^6 = (H*2^10 + L div 2^6) div 15625.               *)
(***************************************************************************)
MulDivU32(n, k) ==
  LET lo  == n % 65536
      hi  == n \div 65536
      plo == lo * k
      L   == plo % 65536
      H   == (hi * k + plo \div 65536) % 65536
  IN  (H * 1024 + L \div 64) \div 15625

\* element_limit, halved for double precision (lines 217-220)
ElementLimit(dbl) == IF dbl THEN element_limit \div 2 ELSE element_limit

\* the if / else-if / else of lines 222-233: the argument of makePartition
DecidePartitionForcedOnlyAboveLimit(force, ndev, elems, dbl, hint) ==
  IF elems < ElementLimit(dbl) THEN 1
  ELSE IF force # -1 /\ force <= ndev THEN force
  ELSE hint

DecidePartition(force, ndev, elems, dbl, hint) ==
  IF force # -1 /\ force <= ndev THEN force
  ELSE IF elems < ElementLimit(dbl) THEN 1
  ELSE hint

VARIABLES
  number_of_devices_,   \* App::number_of_devices_
  best_device_,         \* App::best_device_
  device_mem_sizes_,    \* App::device_mem_sizes_ (MB per device, push_back only)
  current_device,       \* the CUDA runtime's current device (cudaSetDevice)
  enumerated,           \* free memory reported by the most recent enumeration
  is_double,            \* m_mesh.isDouble()
  force_partition_to_,  \* App::force_partition_to_
  num_steps,            \* m_parameters.getNumSteps()
  num_elements_,        \* App::num_elements_
  partitions,           \* argument of the last makePartition (0: none yet)
  mesh_state,           \* "empty" | "setup"
  field_dirty,          \* the mesh's pressure field differs from zero
  responses_,           \* App::responses_ (0: initial value, 1: a sample written)
  responses_double_,    \* App::responses_double_
  current_step_,        \* App::current_step_
  step_direction_,      \* App::step_direction_
  m_window,             \* "null" | "alive" | "deleted" (dangling after delete)
  window_released,      \* number of delete expressions applied to a window object
  out_of_range,         \* a step kernel was given a step outside the response buffer
  interrupt,            \* GLOBAL::interrupt, read by the interrupt predicate
  pc,                   \* position of the control thread
  ret,                  \* where executeStep returns to
  i,                    \* loop counter of runCapture
  step,                 \* local `step` of runCapture
  im,                   \* locals of the initializeMesh call in progress
  phase,                \* controller state of the state machine of the spec
  calls,                \* external calls made by the operation in progress
  ops,                  \* public calls made so far by the client
  rp,                   \* script of the replay scenario
  inv                   \* the invertTime calls made in a row, and the state before them

vars == << number_of_devices_, best_device_, device_mem_sizes_, current_device,
           enumerated, is_double, force_partition_to_, num_steps, num_elements_,
           partitions, mesh_state, field_dirty, responses_, responses_double_,
           current_step_, step_direction_, m_window, window_released,
           out_of_range, interrupt, pc, ret, i, step, im, phase, calls, ops, rp,
           inv >>

deviceVars == << number_of_devices_, best_device_, device_mem_sizes_, enumerated >>
configVars == << is_double, force_partition_to_, num_steps >>
meshVars   == << num_elements_, partitions, mesh_state >>
stepVars   == << current_step_, step_direction_ >>
bufferVars == << responses_, responses_double_ >>
windowVars == << m_window, window_released >>
loopVars   == << ret, i, step >>

Call(op, a, b) == [op |-> op, a |-> a, b |-> b]

ImNone == [caller |-> "none", hint |-> 0, nodes |-> 0, mb |-> 0, mbd |-> 0,
           total |-> 0, outcome |-> "none"]

InvNone == [count |-> 0, s0 |-> 0, d0 |-> 0]

RpOff == [stage |-> "off", s0 |-> 0, d0 |-> 0, n |-> 0, left |-> 0]

Zeros(n) == [k \in 1..n |-> 0]

(***************************************************************************)
(* The state after construction.  The constructor is declared in App.h;    *)
(* the configuration (precision, forced partition count, step count) is    *)
(* what the client set before the first call.                              *)
(***************************************************************************)
Init ==
  /\ number_of_devices_ = 0
  /\ best_device_ = 0
  /\ device_mem_sizes_ = <<>>
  /\ current_device = 0
  /\ enumerated = <<>>
  /\ is_double \in BOOLEAN
  /\ force_partition_to_ \in ForceSamples
  /\ num_steps \in 1..MaxSteps
  /\ num_elements_ = 0
  /\ partitions = 0
  /\ mesh_state = "empty"
  /\ field_dirty = FALSE
  /\ responses_ = <<>>
  /\ responses_double_ = <<>>
  /\ current_step_ = 0
  /\ step_direction_ = 1
  /\ m_window = "null"
  /\ window_released = 0
  /\ out_of_range = FALSE
  /\ interrupt = FALSE
  /\ pc = "idle"
  /\ ret = "idle"
  /\ i = 0
  /\ step = 0
  /\ im = ImNone
  /\ phase = "Uninitialized"
  /\ calls = <<>>
  /\ ops = 0
  /\ rp = RpOff
  /\ inv = InvNone

\* the client may start a public call
ClientMay == pc = "idle" /\ ops < MaxOps /\ rp.stage = "off"
\* after a fatal error or close() only shutdown follows
Usable == phase \notin {"Failed", "Closed"}

(***************************************************************************)
(* Device layer (lines 91-131)                                             *)
(***************************************************************************)
\* the cudaSetDevice(i); cudaDeviceReset() pairs of resetDevices
RECURSIVE ResetCalls(_)
ResetCalls(n) ==
  IF n <= 0 THEN <<>>
  ELSE ResetCalls(n - 1) \o << Call("cudaSetDevice", n - 1, 0),
                               Call("cudaDeviceReset", n - 1, 0) >>

\* the current device after a loop of cudaSetDevice(0..n-1) entered with cur
AfterLoop(n, cur) == IF n > 0 THEN n - 1 ELSE cur

\* queryDevices then resetDevices, without line 128
InitializeDevicesNoSelect ==
  /\ ClientMay /\ Usable
  /\ \E free \in DeviceLayouts :
       \E best \in (IF Len(free) = 0 THEN {0} ELSE 0..(Len(free) - 1)) :
         /\ number_of_devices_' = Len(free)
         /\ best_device_' = best
         /\ device_mem_sizes_' = device_mem_sizes_ \o free
         /\ enumerated' = free
         /\ current_device' = AfterLoop(Len(free), current_device)
         /\ calls' = << Call("cudaGetDeviceCount", Len(free), 0),
                        Call("gpuGetMaxGflopsDeviceId", best, 0) >>
                     \o [k \in 1..Len(free) |-> Call("cudaMemGetInfo", k - 1, free[k])]
                     \o ResetCalls(Len(free))
  /\ ops' = ops + 1
  /\ UNCHANGED << configVars, meshVars, field_dirty, bufferVars, stepVars,
                  windowVars, out_of_range, interrupt, pc, loopVars, im, phase, rp >>
  /\ inv' = InvNone

\* queryDevices then resetDevices then cudaSetDevice(best_device_)
InitializeDevices ==
  /\ ClientMay /\ Usable
  /\ \E free \in DeviceLayouts :
       \E best \in (IF Len(free) = 0 THEN {0} ELSE 0..(Len(free) - 1)) :
         /\ number_of_devices_' = Len(free)
         /\ best_device_' = best
         /\ device_mem_sizes_' = device_mem_sizes_ \o free
         /\ enumerated' = free
         /\ current_device' = best
         /\ calls' = << Call("cudaGetDeviceCount", Len(free), 0),
                        Call("gpuGetMaxGflopsDeviceId", best, 0) >>
                     \o [k \in 1..Len(free) |-> Call("cudaMemGetInfo", k - 1, free[k])]
                     \o ResetCalls(Len(free))
                     \o << Call("cudaSetDevice", best, 0) >>
  /\ ops' = ops + 1
  /\ UNCHANGED << configVars, meshVars, field_dirty, bufferVars, stepVars,
                  windowVars, out_of_range, interrupt, pc, loopVars, im, phase, rp >>
  /\ inv' = InvNone

\* the delete expression of close() applied to the window pointer
DeleteWindow(win) == IF win = "null" THEN "null" ELSE "deleted"
Released(win) == IF win = "null" THEN 0 ELSE 1

\* the calls close() makes: cudaSetDevice(0), resetDevices(), delete m_window
CloseCallsNoReset(ndev) ==
  << Call("cudaSetDevice", 0, 0), Call("delete m_window", 0, 0) >>

CloseCalls(ndev) ==
  << Call("cudaSetDevice", 0, 0) >> \o ResetCalls(ndev)
     \o << Call("delete m_window", 0, 0) >>

\* close() called by the client
Close ==
  /\ ClientMay
  /\ phase # "Closed"
  /\ calls' = CloseCalls(number_of_devices_)
  /\ current_device' = AfterLoop(number_of_devices_, 0)
  /\ m_window' = DeleteWindow(m_window)
  /\ window_released' = window_released + Released(m_window)
  /\ phase' = "Closed"
  /\ ops' = ops + 1
  /\ UNCHANGED << deviceVars, configVars, meshVars, field_dirty, bufferVars,
                  stepVars, out_of_range, interrupt, pc, loopVars, im, rp >>
  /\ inv' = InvNone

(***************************************************************************)
(* App::initializeMesh (lines 147-234)                                     *)
(***************************************************************************)
\* the loop of lines 160-163: device_mem_sizes_.at(0) + ... + at(n-1)
RECURSIVE TotalMem(_, _)
TotalMem(sizes, n) ==
  IF n <= 0 THEN 0 ELSE TotalMem(sizes, n - 1) + sizes[n]

\* the two tests of lines 165 and 170
TooLargeFloatOnly(total_mem, mesh_size_in_MB, mesh_size_in_MB_double, dbl) ==
  total_mem < mesh_size_in_MB

TooLarge(total_mem, mesh_size_in_MB, mesh_size_in_MB_double, dbl) ==
  \/ total_mem < mesh_size_in_MB
  \/ dbl /\ total_mem < mesh_size_in_MB_double

\* the mesh set-up call of lines 195-214
SetupCall(dbl) == IF dbl THEN "setupMeshDouble" ELSE "setupMesh"

(***************************************************************************)
(* The body of initializeMesh(number_of_partitions), entered by `caller`   *)
(* with precision dbl, forced count force and window pointer win (the      *)
(* values the caller has just set), after the caller's calls `before`.     *)
(* nodes is estimated_nodes; elems is what getNumberOfElements() returns.  *)
(* The thread stops at "im_ret", right before the function returns or      *)
(* throws, with the function's locals in im.                               *)
(***************************************************************************)
InitializeMesh(caller, number_of_partitions, dbl, force, win, before, nodes, elems) ==
  LET mesh_size_in_MB        == MulDivU32(nodes, BytesPerNodeFloat)
      mesh_size_in_MB_double == MulDivU32(nodes, BytesPerNodeDouble)
      total_mem              == TotalMem(device_mem_sizes_, number_of_devices_)
      locals(outcome) ==
        [caller |-> caller, hint |-> number_of_partitions, nodes |-> nodes,
         mb |-> mesh_size_in_MB, mbd |-> mesh_size_in_MB_double,
         total |-> total_mem, outcome |-> outcome]
      p == DecidePartition(force, number_of_devices_, elems, dbl,
                           number_of_partitions)
  IN  /\ pc' = "im_ret"
      /\ IF TooLarge(total_mem, mesh_size_in_MB, mesh_size_in_MB_double, dbl)
         THEN \* this->close(); throw(-1);
              /\ im' = locals("rejected")
              /\ calls' = before \o CloseCalls(number_of_devices_)
                                 \o << Call("throw", -1, 0) >>
              /\ current_device' = AfterLoop(number_of_devices_, 0)
              /\ m_window' = DeleteWindow(win)
              /\ window_released' = window_released + Released(win)
              /\ phase' = "Failed"
              /\ UNCHANGED << meshVars, field_dirty >>
         ELSE /\ im' = locals("accepted")
              /\ calls' = before \o << Call("voxelizeGeometry", 0, 0),
                                       Call(SetupCall(dbl), 0, 0),
                                       Call("makePartition", p, 0) >>
              /\ num_elements_' = elems
              /\ partitions' = p
              /\ mesh_state' = "setup"
              /\ field_dirty' = FALSE
              /\ m_window' = win
              /\ phase' = "MeshReady"
              /\ UNCHANGED << current_device, window_released >>

\* initializeMesh called by the client itself
InitializeMeshCall ==
  /\ ClientMay /\ Usable
  /\ \E hint \in HintSamples, nodes \in NodeSamples, elems \in ElementSamples :
       InitializeMesh("client", hint, is_double, force_partition_to_, m_window,
                      <<>>, nodes, elems)
  /\ ops' = ops + 1
  /\ UNCHANGED << deviceVars, configVars, bufferVars, stepVars, out_of_range,
                  interrupt, loopVars, rp >>
  /\ inv' = InvNone

\* the exception of line 168 / 173 leaves initializeMesh and its caller
InitializeMeshThrow ==
  /\ pc = "im_ret" /\ im.outcome = "rejected"
  /\ pc' = "idle"
  /\ im' = ImNone
  /\ UNCHANGED << deviceVars, current_device, configVars, meshVars, field_dirty,
                  bufferVars, stepVars, windowVars, out_of_range, interrupt,
                  loopVars, phase, calls, ops, rp >>
  /\ inv' = InvNone

\* initializeMesh returns to the client
InitializeMeshReturn ==
  /\ pc = "im_ret" /\ im.outcome = "accepted" /\ im.caller = "client"
  /\ pc' = "idle"
  /\ im' = ImNone
  /\ UNCHANGED << deviceVars, current_device, configVars, meshVars, field_dirty,
                  bufferVars, stepVars, windowVars, out_of_range, interrupt,
                  loopVars, phase, calls, ops, rp >>
  /\ inv' = InvNone

(***************************************************************************)
(* Run entry points (lines 278-379)                                        *)
(***************************************************************************)
\* responses_.assign(getNumSteps() * getNumReceivers(), 0)
AssignedShort(steps) == Zeros(steps)

Assigned(steps) == Zeros(steps * NumReceivers)

\* the values setNumSteps(getSpatialFs() * 2) can set (line 287)
VisNumSteps == { 2 * fs : fs \in 1..(MaxSteps \div 2) }

\* runSimulation up to the return of initializeMesh(2)
RunSimulation ==
  /\ ClientMay /\ Usable
  /\ \E nodes \in NodeSamples, elems \in ElementSamples :
       InitializeMesh("runSimulation", 2, is_double, force_partition_to_,
                      m_window, <<>>, nodes, elems)
  /\ ops' = ops + 1
  /\ UNCHANGED << deviceVars, configVars, bufferVars, stepVars, out_of_range,
                  interrupt, loopVars, rp >>
  /\ inv' = InvNone

\* runCapture up to the return of initializeMesh(2): setDouble(false) first
RunCapture ==
  /\ ClientMay /\ Usable
  /\ is_double' = FALSE
  /\ \E nodes \in NodeSamples, elems \in ElementSamples :
       InitializeMesh("runCapture", 2, FALSE, force_partition_to_, m_window,
                      <<>>, nodes, elems)
  /\ ops' = ops + 1
  /\ UNCHANGED << deviceVars, force_partition_to_, num_steps, bufferVars,
                  stepVars, out_of_range, interrupt, loopVars, rp >>
  /\ inv' = InvNone

\* lines 278-290 without line 289 and with initializeMesh(2)
RunVisualizationTwoPartitions ==
  /\ ClientMay /\ Usable
  /\ is_double' = FALSE
  /\ UNCHANGED force_partition_to_
  /\ \E ns \in VisNumSteps : num_steps' = ns
  /\ \E nodes \in NodeSamples, elems \in ElementSamples :
       InitializeMesh("runVisualization", 2, FALSE, force_partition_to_, "alive",
                      << Call("new AppWindow", 0, 0) >>, nodes, elems)
  /\ ops' = ops + 1
  /\ UNCHANGED << deviceVars, bufferVars, stepVars, out_of_range, interrupt,
                  loopVars, rp >>
  /\ inv' = InvNone

\* runVisualization up to the return of initializeMesh(1): a new window,
\* single precision, the step count, force_partition_to_ = 1
RunVisualization ==
  /\ ClientMay /\ Usable
  /\ is_double' = FALSE
  /\ force_partition_to_' = 1
  /\ \E ns \in VisNumSteps : num_steps' = ns
  /\ \E nodes \in NodeSamples, elems \in ElementSamples :
       InitializeMesh("runVisualization", 1, FALSE, 1, "alive",
                      << Call("new AppWindow", 0, 0) >>, nodes, elems)
  /\ ops' = ops + 1
  /\ UNCHANGED << deviceVars, bufferVars, stepVars, out_of_range, interrupt,
                  loopVars, rp >>
  /\ inv' = InvNone

(***************************************************************************)
(* launchFDTD3d / launchFDTD3dDouble (kernels3d.h): runs the steps 0, 1,   *)
(* ... of the run, writing each step's receiver samples, and polls the     *)
(* interrupt predicate after each step.  done steps were executed.         *)
(***************************************************************************)
LaunchWrites(buf, done) ==
  [k \in 1..Len(buf) |-> IF k <= done * NumReceivers THEN 1 ELSE buf[k]]

\* the rest of runSimulation (lines 315-347)
RunSimulationLaunch ==
  /\ pc = "im_ret" /\ im.outcome = "accepted" /\ im.caller = "runSimulation"
  /\ \E done \in 1..num_steps, raised \in BOOLEAN :
       /\ interrupt' = (interrupt \/ raised)
       /\ interrupt => done = 1
       /\ done < num_steps => interrupt'
       /\ IF is_double
          THEN /\ responses_double_' = LaunchWrites(Assigned(num_steps), done)
               /\ UNCHANGED responses_
          ELSE /\ responses_' = LaunchWrites(Assigned(num_steps), done)
               /\ UNCHANGED responses_double_
       /\ calls' = calls \o << Call("assign", num_steps * NumReceivers, 0),
                               Call(IF is_double THEN "launchFDTD3dDouble"
                                                 ELSE "launchFDTD3d", done, 0) >>
       /\ phase' = IF interrupt' THEN "Interrupted" ELSE "Completed"
  /\ field_dirty' = TRUE
  /\ pc' = "idle"
  /\ im' = ImNone
  /\ UNCHANGED << deviceVars, current_device, configVars, meshVars, stepVars,
                  windowVars, out_of_range, loopVars, ops, rp >>
  /\ inv' = InvNone

\* runCapture after initializeMesh: lines 358-359, then the loop is entered
RunCaptureStart ==
  /\ pc = "im_ret" /\ im.outcome = "accepted" /\ im.caller = "runCapture"
  /\ step' = num_steps
  /\ responses_' = Assigned(num_steps)
  /\ calls' = calls \o << Call("assign", num_steps * NumReceivers, 0) >>
  /\ i' = 0
  /\ pc' = "rc_loop"
  /\ phase' = "Running"
  /\ im' = ImNone
  /\ UNCHANGED << deviceVars, current_device, configVars, meshVars, field_dirty,
                  responses_double_, stepVars, windowVars, out_of_range,
                  interrupt, ret, ops, rp >>
  /\ inv' = InvNone

\* line 362 with the loop test left out
RcLoopNoBudget ==
  /\ pc = "rc_loop"
  /\ pc' = "es_kernel"
  /\ ret' = "rc_poll"
  /\ UNCHANGED << deviceVars, current_device, configVars, meshVars, field_dirty,
                  bufferVars, stepVars, windowVars, out_of_range, interrupt,
                  i, step, im, phase, calls, ops, rp >>
  /\ inv' = InvNone

\* the loop test of line 362: i < step
RcLoop ==
  /\ pc = "rc_loop"
  /\ IF i < step
     THEN /\ pc' = "es_kernel"
          /\ ret' = "rc_poll"
          /\ UNCHANGED phase
     ELSE /\ pc' = "idle"
          /\ phase' = "Completed"
          /\ UNCHANGED ret
  /\ UNCHANGED << deviceVars, current_device, configVars, meshVars, field_dirty,
                  bufferVars, stepVars, windowVars, out_of_range, interrupt,
                  i, step, im, calls, ops, rp >>
  /\ inv' = InvNone

\* lines 364-365 without the test: the next step always follows
RcPollIgnored ==
  /\ pc = "rc_poll"
  /\ calls' = calls \o << Call("m_interrupt", IF interrupt THEN 1 ELSE 0, 0) >>
  /\ i' = i + 1
  /\ pc' = "rc_loop"
  /\ UNCHANGED << deviceVars, current_device, configVars, meshVars, field_dirty,
                  bufferVars, stepVars, windowVars, out_of_range, interrupt,
                  ret, step, im, phase, ops, rp >>
  /\ inv' = InvNone

\* lines 364-365: if(this->m_interrupt()) break; then i++
RcPoll ==
  /\ pc = "rc_poll"
  /\ calls' = calls \o << Call("m_interrupt", IF interrupt THEN 1 ELSE 0, 0) >>
  /\ IF interrupt
     THEN /\ pc' = "idle"
          /\ phase' = "Interrupted"
          /\ UNCHANGED i
     ELSE /\ i' = i + 1
          /\ pc' = "rc_loop"
          /\ UNCHANGED phase
  /\ UNCHANGED << deviceVars, current_device, configVars, meshVars, field_dirty,
                  bufferVars, stepVars, windowVars, out_of_range, interrupt,
                  ret, step, im, ops, rp >>
  /\ inv' = InvNone

\* lines 236-273 without the barrier of line 269
InitializeWindowCallsNoBarrier ==
  << Call("initializeGL", 0, 0), Call("initializeWindow", 1200, 800),
     Call("geometryToVbo", 0, 0),
     Call("addPixelBuffer", 0, 0), Call("addPixelBuffer", 1, 0),
     Call("addPixelBuffer", 2, 0),
     Call("registerGLtoCuda", 0, 0), Call("registerGLtoCuda", 1, 0),
     Call("registerGLtoCuda", 2, 0) >>

\* the calls of initializeWindow (lines 236-273)
InitializeWindowCalls ==
  << Call("initializeGL", 0, 0), Call("initializeWindow", 1200, 800),
     Call("geometryToVbo", 0, 0),
     Call("addPixelBuffer", 0, 0), Call("addPixelBuffer", 1, 0),
     Call("addPixelBuffer", 2, 0),
     Call("cudaDeviceSynchronize", 0, 0),
     Call("registerGLtoCuda", 0, 0), Call("registerGLtoCuda", 1, 0),
     Call("registerGLtoCuda", 2, 0) >>

\* updateVisualization(current_slice, orientation, selector, dB) (lines 384-395)
UpdateVisualizationCalls(orientation) ==
  IF orientation \in 0..2
  THEN << Call("updatePixelBuffer", orientation, 0) >>
  ELSE <<>>

\* the rest of runVisualization (lines 291-305); startMainLoop hands control
\* to the window, whose callbacks are the client's calls that follow
RunVisualizationStart ==
  /\ pc = "im_ret" /\ im.outcome = "accepted" /\ im.caller = "runVisualization"
  /\ calls' = calls \o InitializeWindowCalls
                    \o UpdateVisualizationCalls(0)
                    \o UpdateVisualizationCalls(1)
                    \o UpdateVisualizationCalls(2)
                    \o << Call("assign", num_steps * NumReceivers, 0),
                          Call("startMainLoop", 0, 0) >>
  /\ responses_' = Assigned(num_steps)
  /\ pc' = "idle"
  /\ im' = ImNone
  /\ UNCHANGED << deviceVars, current_device, configVars, meshVars, field_dirty,
                  responses_double_, stepVars, windowVars, out_of_range,
                  interrupt, loopVars, phase, ops, rp >>
  /\ inv' = InvNone

(***************************************************************************)
(* App::executeStep (lines 407-436), one action per call it makes          *)
(***************************************************************************)
\* launchFDTD3dStep(..., &responses_[0], current_step_, ...) (kernels3d.h):
\* the samples of step s are stored at s * NumReceivers + r
InBuffer(buf, s) == s >= 0 /\ (s + 1) * NumReceivers <= Len(buf)

KernelWrites(buf, s) ==
  IF InBuffer(buf, s)
  THEN [k \in 1..Len(buf) |->
          IF k > s * NumReceivers /\ k <= (s + 1) * NumReceivers THEN 1 ELSE buf[k]]
  ELSE buf

\* the client (or the window's main loop) calls executeStep
ExecuteStepBody ==
  /\ pc' = "es_kernel"
  /\ ret' = "idle"
  /\ calls' = <<>>
  /\ UNCHANGED << deviceVars, current_device, configVars, meshVars, field_dirty,
                  bufferVars, stepVars, windowVars, out_of_range, interrupt,
                  i, step, im, phase >>

ExecuteStepCall ==
  /\ ClientMay /\ Usable
  /\ ExecuteStepBody
  /\ ops' = ops + 1
  /\ UNCHANGED rp
  /\ inv' = InvNone

\* lines 412-417: the step kernel, given current_step_ and step_direction_
EsKernel ==
  /\ pc = "es_kernel"
  /\ calls' = calls \o << Call("launchFDTD3dStep", current_step_, step_direction_) >>
  /\ responses_' = KernelWrites(responses_, current_step_)
  /\ out_of_range' = (out_of_range \/ ~InBuffer(responses_, current_step_))
  /\ field_dirty' = TRUE
  /\ pc' = "es_advance"
  /\ UNCHANGED << deviceVars, current_device, configVars, meshVars,
                  responses_double_, stepVars, windowVars, interrupt, loopVars,
                  im, phase, ops, rp >>
  /\ inv' = InvNone

\* line 419 with the direction ignored
AdvancedForward(cur, dir) == cur + 1

\* line 419: current_step_ += step_direction_
Advanced(cur, dir) == cur + dir

EsAdvance ==
  /\ pc = "es_advance"
  /\ current_step_' = Advanced(current_step_, step_direction_)
  /\ pc' = "es_slice"
  /\ UNCHANGED << deviceVars, current_device, configVars, meshVars, field_dirty,
                  bufferVars, step_direction_, windowVars, out_of_range,
                  interrupt, loopVars, im, phase, calls, ops, rp >>
  /\ inv' = InvNone

\* lines 421-426 given the step index the kernel was given
EsCaptureSliceStale ==
  /\ pc = "es_slice"
  /\ calls' = calls \o << Call("captureSliceFast",
                                current_step_ - step_direction_, 0) >>
  /\ pc' = "es_mesh"
  /\ UNCHANGED << deviceVars, current_device, configVars, meshVars, field_dirty,
                  bufferVars, stepVars, windowVars, out_of_range, interrupt,
                  loopVars, im, phase, ops, rp >>
  /\ inv' = InvNone

\* lines 421-426: captureSliceFast(..., current_step_, captureBitmap)
EsCaptureSlice ==
  /\ pc = "es_slice"
  /\ calls' = calls \o << Call("captureSliceFast", current_step_, 0) >>
  /\ pc' = "es_mesh"
  /\ UNCHANGED << deviceVars, current_device, configVars, meshVars, field_dirty,
                  bufferVars, stepVars, windowVars, out_of_range, interrupt,
                  loopVars, im, phase, ops, rp >>
  /\ inv' = InvNone

\* lines 428-434: captureMesh(..., current_step_), then executeStep returns
EsCaptureMesh ==
  /\ pc = "es_mesh"
  /\ calls' = calls \o << Call("captureMesh", current_step_, 0) >>
  /\ pc' = ret
  /\ UNCHANGED << deviceVars, current_device, configVars, meshVars, field_dirty,
                  bufferVars, stepVars, windowVars, out_of_range, interrupt,
                  loopVars, im, phase, ops, rp >>
  /\ inv' = InvNone

(***************************************************************************)
(* Controls (lines 384-405)                                                *)
(***************************************************************************)
\* line 404 written as an assignment of -1
InvertedToReverse(dir) == -1

\* line 404: step_direction_ *= -1
Inverted(dir) == dir * (-1)

InvertTimeBody ==
  /\ step_direction_' = Inverted(step_direction_)
  /\ calls' = <<>>
  /\ UNCHANGED << deviceVars, current_device, configVars, meshVars, field_dirty,
                  bufferVars, current_step_, windowVars, out_of_range,
                  interrupt, pc, loopVars, im, phase >>

\* invertTime called by the client; a call that directly repeats an invertTime
\* is not counted in the client's budget of calls
InvertTime ==
  /\ pc = "idle" /\ rp.stage = "off" /\ Usable
  /\ ops < MaxOps \/ inv.count = 1
  /\ InvertTimeBody
  /\ ops' = IF inv.count = 1 THEN ops ELSE ops + 1
  /\ inv' = IF inv.count = 1
            THEN [inv EXCEPT !.count = 2]
            ELSE [count |-> 1, s0 |-> current_step_, d0 |-> step_direction_]
  /\ UNCHANGED rp

\* lines 397-401 without line 400
ResetPressureMeshKeepsStep ==
  /\ ClientMay /\ Usable
  /\ calls' = << Call("resetPressures", 0, 0) >>
  /\ field_dirty' = FALSE
  /\ ops' = ops + 1
  /\ UNCHANGED << deviceVars, current_device, configVars, meshVars, bufferVars,
                  stepVars, windowVars, out_of_range, interrupt, pc,
                  loopVars, im, phase, rp >>
  /\ inv' = InvNone

\* resetPressureMesh (lines 397-401)
ResetPressureMesh ==
  /\ ClientMay /\ Usable
  /\ calls' = << Call("resetPressures", 0, 0) >>
  /\ field_dirty' = FALSE
  /\ current_step_' = 0
  /\ ops' = ops + 1
  /\ UNCHANGED << deviceVars, current_device, configVars, meshVars, bufferVars,
                  step_direction_, windowVars, out_of_range, interrupt, pc,
                  loopVars, im, phase, rp >>
  /\ inv' = InvNone

\* updateVisualization called from the window's main loop
UpdateVisualization ==
  /\ ClientMay /\ Usable
  /\ \E orientation \in 0..3 : calls' = UpdateVisualizationCalls(orientation)
  /\ ops' = ops + 1
  /\ UNCHANGED << deviceVars, current_device, configVars, meshVars, field_dirty,
                  bufferVars, stepVars, windowVars, out_of_range, interrupt, pc,
                  loopVars, im, phase, rp >>
  /\ inv' = InvNone

\* the environment raises GLOBAL::interrupt (line 51) while a run is stepping;
\* the flag is never lowered, so a later run finds it raised from its start
RaiseInterrupt ==
  /\ ~interrupt
  /\ phase = "Running"
  /\ interrupt' = TRUE
  /\ UNCHANGED << deviceVars, current_device, configVars, meshVars, field_dirty,
                  bufferVars, stepVars, windowVars, out_of_range, pc, loopVars,
                  im, phase, calls, ops, rp >>
  /\ inv' = InvNone

Step ==
  \/ RcLoop
  \/ RcPoll
  \/ EsKernel
  \/ EsAdvance
  \/ EsCaptureSlice
  \/ EsCaptureMesh
  \/ InitializeMeshThrow
  \/ InitializeMeshReturn
  \/ RunSimulationLaunch
  \/ RunCaptureStart
  \/ RunVisualizationStart

Next ==
  \/ InitializeDevices
  \/ InitializeMeshCall
  \/ RunSimulation
  \/ RunCapture
  \/ RunVisualization
  \/ ExecuteStepCall
  \/ InvertTime
  \/ ResetPressureMesh
  \/ UpdateVisualization
  \/ Close
  \/ RaiseInterrupt
  \/ Step

Spec == Init /\ [][Next]_vars

\* the control thread keeps running: a call in progress proceeds
FairSpec == Spec /\ WF_vars(Step)

(***************************************************************************)
(* The replay scenario: from step s0 with direction +1 (a visualization    *)
(* run that has made s0 steps), the client calls invertTime, n times       *)
(* executeStep, invertTime, n times executeStep.                           *)
(***************************************************************************)
ReplayNumSteps == 2 * (MaxReplayStart + MaxReplayLen)

InitReplay ==
  /\ number_of_devices_ = 1
  /\ best_device_ = 0
  /\ device_mem_sizes_ = << 1000 >>
  /\ current_device = 0
  /\ enumerated = << 1000 >>
  /\ is_double = FALSE
  /\ force_partition_to_ = 1
  /\ num_steps = ReplayNumSteps
  /\ num_elements_ = 20000000
  /\ partitions = 1
  /\ mesh_state = "setup"
  /\ \E s0 \in 0..MaxReplayStart, n \in 0..MaxReplayLen :
       /\ n <= s0
       /\ current_step_ = s0
       /\ responses_ = LaunchWrites(Assigned(ReplayNumSteps), s0)
       /\ field_dirty = (s0 > 0)
       /\ rp = [stage |-> "start", s0 |-> s0, d0 |-> 1, n |-> n, left |-> 0]
  /\ responses_double_ = <<>>
  /\ step_direction_ = 1
  /\ m_window = "alive"
  /\ window_released = 0
  /\ out_of_range = FALSE
  /\ interrupt = FALSE
  /\ pc = "idle"
  /\ ret = "idle"
  /\ i = 0
  /\ step = 0
  /\ im = ImNone
  /\ phase = "MeshReady"
  /\ calls = <<>>
  /\ ops = 0
  /\ inv = InvNone

\* the first and the second invertTime of the scenario
ReplayInvert ==
  /\ pc = "idle"
  /\ \/ rp.stage = "start" /\ rp' = [rp EXCEPT !.stage = "back", !.left = rp.n]
     \/ rp.stage = "back" /\ rp.left = 0
                          /\ rp' = [rp EXCEPT !.stage = "fwd", !.left = rp.n]
  /\ InvertTimeBody
  /\ UNCHANGED ops
  /\ inv' = InvNone

\* one executeStep of the scenario
ReplayStep ==
  /\ pc = "idle"
  /\ rp.stage \in {"back", "fwd"}
  /\ rp.left > 0
  /\ rp' = [rp EXCEPT !.left = rp.left - 1]
  /\ ExecuteStepBody
  /\ UNCHANGED ops
  /\ inv' = InvNone

NextReplay ==
  \/ ReplayInvert
  \/ ReplayStep
  \/ EsKernel
  \/ EsAdvance
  \/ EsCaptureSlice
  \/ EsCaptureMesh

ReplaySpec == InitReplay /\ [][NextReplay]_vars

(***************************************************************************)
(* Quantities the claims speak of                                          *)
(***************************************************************************)
\* floor(n * k / 10^6) in unbounded arithmetic
ExactMB(n, k) == (n \div 1000000) * k + ((n % 1000000) * k) \div 1000000

\* the footprint of n nodes at the given precision, in MB
Footprint(n, dbl) ==
  IF dbl THEN ExactMB(n, BytesPerNodeDouble) ELSE ExactMB(n, BytesPerNodeFloat)

RECURSIVE SumFirst(_, _)
SumFirst(seq, n) == IF n <= 0 THEN 0 ELSE SumFirst(seq, n - 1) + seq[n]

Min(a, b) == IF a < b THEN a ELSE b

\* the call log has an entry with one of these names
Called(names) == \E k \in 1..Len(calls) : calls[k].op \in names

\* the number of entries of the call log with this name
RECURSIVE CountIn(_, _)
CountIn(log, name) ==
  IF log = <<>> THEN 0
  ELSE (IF Head(log).op = name THEN 1 ELSE 0) + CountIn(Tail(log), name)

AllocationCalls == {"voxelizeGeometry", "setupMesh", "setupMeshDouble", "makePartition"}

\* initializeMesh is about to return (accepted) or to throw (rejected)
AtDecision == pc = "im_ret"
Accepted == AtDecision /\ im.outcome = "accepted"
Rejected == AtDecision /\ im.outcome = "rejected"

\* the forced count is valid: 1 <= force_partition_to_ <= device count
ForcedValid == 1 <= force_partition_to_ /\ force_partition_to_ <= number_of_devices_

(***************************************************************************)
(* C1: whenever the footprint of the estimated node count at the           *)
(* configured precision exceeds the summed free memory of all enumerated   *)
(* devices, initializeMesh fails, and it has called neither the voxelizer, *)
(* nor the mesh set-up, nor makePartition.                                 *)
(***************************************************************************)
C1_RejectsEveryOversizedMesh ==
  (AtDecision /\ Footprint(im.nodes, is_double) > SumFirst(enumerated, Len(enumerated)))
    => (im.outcome = "rejected" /\ ~Called(AllocationCalls))

(***************************************************************************)
(* C2: whenever initializeMesh accepts and fixes the partition count p,    *)
(* the footprint (even as the code itself estimates it) does not exceed    *)
(* the summed free memory of the p devices the mesh is split across.       *)
(***************************************************************************)
EstimatedMB == IF is_double /\ im.mbd > im.mb THEN im.mbd ELSE im.mb

C2_FitsTheDevicesUsed ==
  Accepted =>
    EstimatedMB <= SumFirst(enumerated, Min(partitions, Len(enumerated)))

(***************************************************************************)
(* C3: with a valid forced count f (1 <= f <= device count) and the memory *)
(* check passed, makePartition is given exactly f, whatever the element    *)
(* count and the count the caller requested.                               *)
(***************************************************************************)
C3_ForcedCountHonoured ==
  (Accepted /\ ForcedValid) =>
    /\ partitions = force_partition_to_
    /\ calls[Len(calls)] = Call("makePartition", force_partition_to_, 0)
    /\ CountIn(calls, "makePartition") = 1

C3_Witness ==
  /\ Accepted /\ ForcedValid
  /\ force_partition_to_ = 2
  /\ num_elements_ < ElementLimit(is_double)
  /\ partitions = 2

(***************************************************************************)
(* C4: when no valid forced count applies, the partition count is 1 if     *)
(* the element count is below the limit (90e6, halved for double           *)
(* precision) and the count the caller requested otherwise.                *)
(***************************************************************************)
C4_ThresholdThenRequested ==
  (Accepted /\ ~ForcedValid) =>
    partitions = IF num_elements_ < ElementLimit(is_double) THEN 1 ELSE im.hint

(***************************************************************************)
(* C5: on the rejecting path every enumerated device has been reset, the   *)
(* exception is the last thing that happens, it is raised once, and        *)
(* neither the voxelizer, the mesh set-up nor makePartition was called.    *)
(***************************************************************************)
C5_ResetAllThenFail ==
  Rejected =>
    /\ calls[Len(calls)] = Call("throw", -1, 0)
    /\ CountIn(calls, "throw") = 1
    /\ \A d \in 0..(number_of_devices_ - 1) :
         \E k \in 1..(Len(calls) - 1) : calls[k] = Call("cudaDeviceReset", d, 0)
    /\ ~Called(AllocationCalls)
    /\ phase = "Failed"

C5_Witness ==
  /\ Rejected
  /\ number_of_devices_ = 2
  /\ is_double
  /\ im.total >= im.mb
  /\ im.total < im.mbd

(***************************************************************************)
(* The step loop of runCapture in the call log: after the four calls of    *)
(* mesh initialization and buffer allocation, each step contributes        *)
(* launchFDTD3dStep, captureSliceFast, captureMesh, m_interrupt.           *)
(***************************************************************************)
\* runCapture has just returned
CaptureReturned ==
  /\ pc = "idle"
  /\ Len(calls) >= 5
  /\ calls[1].op = "voxelizeGeometry"
  /\ calls[5].op = "launchFDTD3dStep"

\* the step loop is running, or has just returned
InCapture == phase = "Running" \/ CaptureReturned

LoopLog == SubSeq(calls, 5, Len(calls))

PollTrue == Call("m_interrupt", 1, 0)
PollFalse == Call("m_interrupt", 0, 0)

(***************************************************************************)
(* C6: when the loop is left by the interrupt after k executed steps,      *)
(* k < numSteps, every response entry of the steps k, k+1, ... is still    *)
(* zero and the controller is Interrupted.  Only behaviours in which every  *)
(* kernel call so far had its step inside the response buffer are looked   *)
(* at.                                                                     *)
(***************************************************************************)
C6_EntriesFromKStayZero ==
  (CaptureReturned /\ calls[Len(calls)] = PollTrue /\ i + 1 < step
     /\ ~out_of_range) =>
    /\ phase = "Interrupted"
    /\ \A k \in ((i + 1) * NumReceivers + 1)..Len(responses_) : responses_[k] = 0

(***************************************************************************)
(* C7: in the step loop every step is one kernel call, the two capture     *)
(* calls with the advanced step index, and then exactly one poll of the    *)
(* interrupt predicate; the loop is never left in the middle of a step,    *)
(* and nothing follows a poll that returned true.                          *)
(***************************************************************************)
C7_PollOncePerStepNoCancel ==
  InCapture =>
    /\ \A k \in 1..Len(LoopLog) :
         /\ k % 4 = 1 => LoopLog[k].op = "launchFDTD3dStep"
         /\ k % 4 = 2 => LoopLog[k] = Call("captureSliceFast",
                                           LoopLog[k-1].a + LoopLog[k-1].b, 0)
         /\ k % 4 = 3 => LoopLog[k] = Call("captureMesh",
                                           LoopLog[k-2].a + LoopLog[k-2].b, 0)
         /\ k % 4 = 0 => LoopLog[k].op = "m_interrupt"
         /\ LoopLog[k] = PollTrue => k = Len(LoopLog)
    /\ pc \in {"idle", "rc_loop"} => Len(LoopLog) % 4 = 0
    /\ pc = "rc_loop" => (Len(LoopLog) = 4 * i
                           /\ (i = 0 \/ calls[Len(calls)] = PollFalse))
    /\ interrupt /\ pc = "es_kernel" => Len(LoopLog) % 4 = 0
    /\ interrupt /\ pc = "es_advance" => Len(LoopLog) % 4 = 1
    /\ interrupt /\ pc = "es_slice" => Len(LoopLog) % 4 = 1
    /\ interrupt /\ pc = "es_mesh" => Len(LoopLog) % 4 = 2
    /\ interrupt /\ pc = "rc_poll" => Len(LoopLog) % 4 = 3

C7_Witness ==
  /\ CaptureReturned
  /\ phase = "Interrupted"
  /\ interrupt
  /\ CountIn(calls, "launchFDTD3dStep") = 2
  /\ CountIn(calls, "m_interrupt") = 2
  /\ calls[Len(calls)] = PollTrue

(***************************************************************************)
(* C8: a run makes at most numSteps calls of executeStep, ends either      *)
(* Interrupted (the last poll returned true) or Completed (numSteps steps  *)
(* made, no poll returned true), and, the control thread being scheduled,  *)
(* always ends.                                                            *)
(***************************************************************************)
C8_Bounded ==
  /\ InCapture => CountIn(calls, "launchFDTD3dStep") <= step
  /\ CaptureReturned =>
       \/ /\ phase = "Interrupted"
          /\ calls[Len(calls)] = PollTrue
       \/ /\ phase = "Completed"
          /\ CountIn(calls, "launchFDTD3dStep") = step
          /\ calls[Len(calls)] = PollFalse
          /\ CountIn(calls, "m_interrupt") = step

C8_RunTerminates ==
  /\ []C8_Bounded
  /\ (phase = "Running") ~> (CaptureReturned /\ phase \in {"Interrupted", "Completed"})

C8_Witness ==
  /\ CaptureReturned
  /\ phase = "Completed"
  /\ step >= 2
  /\ interrupt
  /\ CountIn(calls, "launchFDTD3dStep") = step

(***************************************************************************)
(* C9: one invertTime flips the direction and leaves the step index; two   *)
(* in a row restore the direction and leave the step index.                *)
(***************************************************************************)
C9_InvertIsInvolution ==
  /\ inv.count = 1 => (current_step_ = inv.s0 /\ step_direction_ = 0 - inv.d0)
  /\ inv.count = 2 => (current_step_ = inv.s0 /\ step_direction_ = inv.d0)

C9_Witness ==
  /\ inv.count = 2
  /\ inv.s0 > 0
  /\ inv.d0 = 1
  /\ phase = "Interrupted"

(***************************************************************************)
(* C10: from step s0 with direction +1, invertTime, n executeStep,         *)
(* invertTime, n executeStep (n <= s0) ends at step s0 with direction +1.  *)
(***************************************************************************)
ReplayDone == rp.stage = "fwd" /\ rp.left = 0 /\ pc = "idle"

C10_ReplayRoundTrip ==
  /\ ReplayDone => (current_step_ = rp.s0 /\ step_direction_ = 1)
  /\ (rp.stage = "back" /\ rp.left = 0 /\ pc = "idle") =>
        (current_step_ = rp.s0 - rp.n /\ step_direction_ = -1)

C10_Witness ==
  /\ ReplayDone
  /\ rp.s0 = 10
  /\ rp.n = 5
  /\ current_step_ = 10

(***************************************************************************)
(* C11: a resetPressureMesh call sets the step index to 0 and zeroes the   *)
(* pressure field, and leaves the partition count, the mesh geometry, the  *)
(* step direction, the simulation parameters, the device snapshot, the     *)
(* response buffers and the window as they were.                           *)
(***************************************************************************)
ResetPressuresLog == << Call("resetPressures", 0, 0) >>

C11_ResetPressuresFrame ==
  [][ (calls' = ResetPressuresLog /\ ops' = ops + 1) =>
        /\ current_step_' = 0
        /\ field_dirty' = FALSE
        /\ UNCHANGED << meshVars, step_direction_, configVars, deviceVars,
                        current_device, bufferVars, windowVars, phase >> ]_vars

C11_Witness ==
  /\ calls = ResetPressuresLog
  /\ phase = "Completed"
  /\ current_step_ = 0
  /\ ~field_dirty
  /\ partitions = 2
  /\ num_steps = MaxSteps
  /\ responses_[Len(responses_)] = 1

(***************************************************************************)
(* C12: resetPressureMesh, invertTime and executeStep take no effect while *)
(* the controller is Uninitialized: the step direction and the step index  *)
(* are those of construction, and neither the step kernel nor the mesh's   *)
(* resetPressures has been called.                                         *)
(***************************************************************************)
C12_NoEffectWhileUninitialized ==
  phase = "Uninitialized" =>
    /\ step_direction_ = 1
    /\ current_step_ = 0
    /\ ~Called({"launchFDTD3dStep", "resetPressures"})
    /\ pc \notin {"es_kernel", "es_advance", "es_slice", "es_mesh"}

(***************************************************************************)
(* C13: after any sequence of enumerations the device sequence holds       *)
(* exactly one entry per enumerated device, entry i being the free memory  *)
(* the most recent enumeration reported for device i, and the budget       *)
(* initializeMesh compares with is the sum of those values.                *)
(***************************************************************************)
C13_SnapshotIsLatestEnumeration ==
  /\ Len(device_mem_sizes_) = number_of_devices_
  /\ device_mem_sizes_ = enumerated
  /\ AtDecision => im.total = SumFirst(enumerated, Len(enumerated))

(***************************************************************************)
(* C14: from initializeDevices on, and until close() (called by the client *)
(* or by the rejecting path of initializeMesh), the current device is the  *)
(* best device every time the controller is between two operations or      *)
(* inside one, and no step other than an enumeration changes it.           *)
(***************************************************************************)
C14_ActiveDeviceIsBest ==
  /\ [](Usable => current_device = best_device_)
  /\ [][ (Usable' /\ ~(calls' # <<>> /\ calls'[1].op = "cudaGetDeviceCount"
                          /\ ops' = ops + 1))
           => current_device' = current_device ]_vars

C14_Witness ==
  /\ number_of_devices_ = 2
  /\ best_device_ = 0
  /\ current_device = 0
  /\ phase = "Running"
  /\ pc = "es_advance"

(***************************************************************************)
(* C15: in the call log of a visualization run every updatePixelBuffer     *)
(* call comes after the device barrier and after the registration of the   *)
(* three interop handles, the window set-up comes after makePartition, and *)
(* no log that holds a step-kernel call holds a device barrier.            *)
(***************************************************************************)
\* the log is that of runVisualization
VisLog == calls # <<>> /\ calls[1].op = "new AppWindow"

\* a call equal to c, or a call with this name, is logged before position k
Before(c, k) == \E j \in 1..(k - 1) : calls[j] = c
OpBefore(name, k) == \E j \in 1..(k - 1) : calls[j].op = name

C15_BarrierBeforeFirstFrame ==
  /\ VisLog =>
       \A k \in 1..Len(calls) :
         /\ calls[k].op = "updatePixelBuffer" =>
              /\ OpBefore("cudaDeviceSynchronize", k)
              /\ \A h \in 0..2 : Before(Call("registerGLtoCuda", h, 0), k)
         /\ calls[k].op \in {"initializeGL", "cudaDeviceSynchronize",
                              "registerGLtoCuda"} =>
              OpBefore("makePartition", k)
  /\ Called({"launchFDTD3dStep"}) => ~Called({"cudaDeviceSynchronize"})

C15_Witness ==
  /\ VisLog
  /\ pc = "idle"
  /\ CountIn(calls, "updatePixelBuffer") = 3
  /\ CountIn(calls, "cudaDeviceSynchronize") = 1
  /\ CountIn(calls, "registerGLtoCuda") = 3
  /\ calls[Len(calls)].op = "startMainLoop"

(***************************************************************************)
(* C16: in every run the step kernels are called after an assign of        *)
(* numSteps x numReceivers zeros to the response buffer of the precision   *)
(* in use, which itself follows makePartition: the buffer has exactly that *)
(* length, is all zero when the first step is about to run, and entries    *)
(* of steps not executed are zero after the run.                           *)
(***************************************************************************)
KernelOps == {"launchFDTD3d", "launchFDTD3dDouble", "launchFDTD3dStep"}

BufferLen == num_steps * NumReceivers

\* the operation in progress, or the last one, is a run
RunLog == calls # <<>> /\ calls[1].op \in {"voxelizeGeometry", "new AppWindow"}

\* the last call of the log has this name
LastOp(name) == calls # <<>> /\ calls[Len(calls)].op = name

C16_BufferZeroedBeforeFirstStep ==
  /\ RunLog =>
       \A k \in 1..Len(calls) :
         /\ calls[k].op \in KernelOps => Before(Call("assign", BufferLen, 0), k)
         /\ calls[k].op = "assign" => OpBefore("makePartition", k)
  /\ (phase = "Running" /\ i = 0 /\ pc \in {"rc_loop", "es_kernel"}) =>
       responses_ = Zeros(BufferLen)
  /\ (pc = "idle" /\ LastOp("startMainLoop")) => responses_ = Zeros(BufferLen)
  /\ (pc = "idle" /\ LastOp("launchFDTD3d")) =>
       /\ ~is_double
       /\ Len(responses_) = BufferLen
       /\ \A k \in (calls[Len(calls)].a * NumReceivers + 1)..BufferLen :
            responses_[k] = 0
  /\ (pc = "idle" /\ LastOp("launchFDTD3dDouble")) =>
       /\ is_double
       /\ Len(responses_double_) = BufferLen
       /\ \A k \in (calls[Len(calls)].a * NumReceivers + 1)..BufferLen :
            responses_double_[k] = 0

C16_Witness ==
  /\ pc = "idle"
  /\ LastOp("launchFDTD3dDouble")
  /\ num_steps = MaxSteps
  /\ calls[Len(calls)].a = 1
  /\ Len(responses_double_) = MaxSteps * NumReceivers
  /\ responses_double_[1] = 1
  /\ phase = "Interrupted"

(***************************************************************************)
(* C17: an executeStep call makes exactly three calls, in this order: the  *)
(* step kernel with the step index and direction found at entry, then,     *)
(* the index advanced by the direction (+1 or -1), captureSliceFast and    *)
(* captureMesh with the advanced index.                                    *)
(***************************************************************************)
\* executeStep was called by the client and is in progress or has returned
InOwnStep == calls # <<>> /\ calls[1].op = "launchFDTD3dStep"

C17_KernelAdvanceCapture ==
  /\ step_direction_ \in {1, -1}
  /\ (pc = "es_kernel" /\ ret = "idle") => calls = <<>>
  /\ InOwnStep =>
       /\ pc \in {"es_advance", "es_slice", "es_mesh", "idle"}
       /\ calls[1].b = step_direction_
       /\ pc = "es_advance" =>
            calls = << Call("launchFDTD3dStep", current_step_, step_direction_) >>
       /\ pc = "es_slice" =>
            calls = << Call("launchFDTD3dStep", current_step_ - step_direction_,
                            step_direction_) >>
       /\ pc = "es_mesh" =>
            calls = << Call("launchFDTD3dStep", current_step_ - step_direction_,
                            step_direction_),
                       Call("captureSliceFast", current_step_, 0) >>
       /\ pc = "idle" =>
            calls = << Call("launchFDTD3dStep", current_step_ - step_direction_,
                            step_direction_),
                       Call("captureSliceFast", current_step_, 0),
                       Call("captureMesh", current_step_, 0) >>

C17_Witness ==
  /\ pc = "idle"
  /\ phase = "MeshReady"
  /\ step_direction_ = 1
  /\ current_step_ = 1
  /\ calls = << Call("launchFDTD3dStep", 0, 1),
                Call("captureSliceFast", 1, 0),
                Call("captureMesh", 1, 0) >>

(***************************************************************************)
(* C18: the footprints initializeMesh computes are floor(n * 8 / 10^6) MB  *)
(* for single and floor(n * 18 / 10^6) MB for double precision, so the     *)
(* single-precision footprint never exceeds the double-precision one.      *)
(***************************************************************************)
C18_FootprintIsExact ==
  AtDecision =>
    /\ im.mb = ExactMB(im.nodes, BytesPerNodeFloat)
    /\ im.mbd = ExactMB(im.nodes, BytesPerNodeDouble)
    /\ im.mb <= im.mbd

(***************************************************************************)
(* C19: when the mesh initialization of runVisualization succeeds the mesh *)
(* is single precision and makePartition was given 1, whatever the element *)
(* count and the number of enumerated devices.                             *)
(***************************************************************************)
C19_VisualizationOnePartition ==
  VisLog =>
    /\ ~is_double
    /\ force_partition_to_ = 1
    /\ ~Called({"setupMeshDouble"})
    /\ \A k \in 1..Len(calls) :
         calls[k].op = "makePartition" =>
           (calls[k].a = 1 /\ partitions = 1 /\ calls[k - 1].op = "setupMesh")
    /\ Accepted => LastOp("makePartition")

C19_Witness ==
  /\ VisLog
  /\ Accepted
  /\ number_of_devices_ = 0
  /\ num_elements_ >= element_limit
  /\ partitions = 1

(***************************************************************************)
(* C20: the step index executeStep is about to hand to the step kernel is  *)
(* from 0 to numSteps - 1.  Only behaviours in which the mesh has been     *)
(* initialized and every kernel call so far had its step inside the        *)
(* response buffer are looked at.                                          *)
(***************************************************************************)
C20_StepIndexInsideBuffer ==
  (pc = "es_kernel" /\ phase # "Uninitialized" /\ ~out_of_range) =>
    (0 <= current_step_ /\ current_step_ <= num_steps - 1)

(***************************************************************************)
(* C21: whenever initializeMesh succeeds, the count given to makePartition *)
(* is at least 1 and at most the number of enumerated devices.  Only       *)
(* behaviours in which at least one device was enumerated are looked at.   *)
(***************************************************************************)
C21_PartitionCountWithinDevices ==
  (Accepted /\ number_of_devices_ >= 1) =>
    /\ LastOp("makePartition")
    /\ 1 <= calls[Len(calls)].a
    /\ calls[Len(calls)].a <= number_of_devices_

(***************************************************************************)
(* C22: over any sequence of operations the delete expression of close()   *)
(* is applied to a window object at most once, also when close() is called *)
(* after initializeMesh failed and called close() itself.                  *)
(***************************************************************************)
C22_WindowReleasedAtMostOnce ==
  window_released <= 1

====
